---- MODULE Spec2Model ----
(***************************************************************************)
(* Model of the Group Event Planner component                              *)
(* (src/components/groupEventPlanner.tsx): the event list, the RSVP        *)
(* toggle, event creation with its form validation, month navigation, day  *)
(* selection and the toast notification with its timer.                    *)
(*                                                                         *)
(* Instants are whole seconds since 1970-01-01T00:00:00 of the local       *)
(* calendar (a zone with a fixed offset); a JavaScript Date is an instant  *)
(* or InvalidDate.  Strings the code trims or parses are sequences of      *)
(* one-character strings.                                                  *)
(***************************************************************************)
EXTENDS Integers, Sequences, FiniteSets, TLC

VARIABLES
    events,               \* useState<Event[]>(initialEvents)
    currentMonth,         \* useState(new Date())
    selectedDate,         \* useState<Date | null>(new Date())
    isAddEventModalOpen,  \* useState(false)
    notification,         \* useState<{message, type} | null>(null)
    timers,               \* the instants at which a setTimeout callback of showToast is due
    errors,               \* AddEventForm: useState<{[key]: string}>({})
    now,                  \* the wall clock read by new Date() and Date.now()
    loadedAt,             \* the clock reading at which the page was loaded
    lastCall,             \* the latest handler call an observer recorded
    prevCall              \* the handler call recorded before it

\* the state of the page
page == <<events, currentMonth, selectedDate, isAddEventModalOpen,
          notification, timers, errors, now, loadedAt>>

\* what an observer of the handler calls has recorded
observed == <<lastCall, prevCall>>

vars == <<page, observed>>

----------------------------------------------------------------------------
(* Bounds of the model *)

\* times the clock may advance after the page is loaded
MaxTicks == 1
\* events that may be created on top of the events the list starts with
MaxNewEvents == 2
\* largest maxAttendees of the event lists handleRsvp is applied to
MaxCapacity == 3
\* months the displayed month may be away from the month the page was loaded in
MaxMonthShift == 1
\* years after 2024 in which the calendar page is loaded
MaxLoadYears == 2
\* seconds of the clock while notifications are watched
MaxSeconds == 5
\* longest event list eventsByDate and eventsOnSelectedDate are applied to
MaxListLen == 3

----------------------------------------------------------------------------
(* JavaScript values *)

\* Values of different JavaScript types are records tagged by kind, so that any
\* two of them can be compared.
Null == [kind |-> "null"]
Undefined == [kind |-> "undefined"]
NaN == [kind |-> "NaN"]
Num(n) == [kind |-> "number", val |-> n]
InvalidDate == [kind |-> "invalid date"]
\* a Date holding the instant t
DateOf(t) == [kind |-> "date", time |-> t]

----------------------------------------------------------------------------
(* The calendar: JavaScript Date and date-fns *)

SecondsPerDay == 24 * 60 * 60

\* offset of local time from UTC, in seconds (UTC+05:30)
TimezoneOffset == 330 * 60

IsLeapYear(y) == (y % 4 = 0 /\ y % 100 # 0) \/ y % 400 = 0

DaysInMonth(y, m) ==
    IF m = 2 THEN (IF IsLeapYear(y) THEN 29 ELSE 28)
    ELSE IF m \in {4, 6, 9, 11} THEN 30 ELSE 31

\* leap days before 1 January of year y, counted from year 1
LeapDaysBefore(y) == ((y - 1) \div 4) - ((y - 1) \div 100) + ((y - 1) \div 400)

\* days from 1970-01-01 to 1 January of year y
DaysBeforeYear(y) == 365 * (y - 1970) + LeapDaysBefore(y) - LeapDaysBefore(1970)

RECURSIVE DaysBeforeMonth(_, _)
\* days from 1 January of year y to the first of month m (1..12)
DaysBeforeMonth(y, m) ==
    IF m = 1 THEN 0 ELSE DaysBeforeMonth(y, m - 1) + DaysInMonth(y, m - 1)

\* day number (days since 1970-01-01) of the calendar day y-m-d; as the Date
\* constructor does, a month outside 1..12 or a day outside the month rolls over
DaysFromCivil(y, m, d) ==
    LET yy == y + ((m - 1) \div 12)
        mm == ((m - 1) % 12) + 1
    IN  DaysBeforeYear(yy) + DaysBeforeMonth(yy, mm) + d - 1

\* the calendar day of day number n: its year, month (1..12) and day of the
\* month, counted in eras of 400 years that begin on 1 March
CivilFromDays(n) ==
    LET z == n + 719468
        era == z \div 146097
        doe == z - era * 146097
        yoe == (doe - (doe \div 1460) + (doe \div 36524) - (doe \div 146096)) \div 365
        doy == doe - (365 * yoe + (yoe \div 4) - (yoe \div 100))
        mp == (5 * doy + 2) \div 153
        d == doy - ((153 * mp + 2) \div 5) + 1
        m == IF mp < 10 THEN mp + 3 ELSE mp - 9
        y == yoe + era * 400 + (IF m <= 2 THEN 1 ELSE 0)
    IN  [y |-> y, m |-> m, d |-> d]

\* year of day number n
YearOfDay(n) == CivilFromDays(n).y

\* month (1..12) of day number n
MonthOfDay(n) == CivilFromDays(n).m

\* day of the month (1..31) of day number n
DayOfMonth(n) == CivilFromDays(n).d

\* local day number of the instant t
LocalDay(t) == (t + TimezoneOffset) \div SecondsPerDay

\* seconds since local midnight of the instant t
LocalSecondOfDay(t) == (t + TimezoneOffset) % SecondsPerDay

\* the instant of the local civil time: new Date(y, monthIndex, d, h, mi, s),
\* with m = monthIndex + 1
LocalInstant(y, m, d, h, mi, s) ==
    DaysFromCivil(y, m, d) * SecondsPerDay + h * 3600 + mi * 60 + s - TimezoneOffset

\* Date.prototype.getFullYear, getMonth() + 1, getDate, getDay
GetFullYear(t) == YearOfDay(LocalDay(t))
GetMonth(t) == MonthOfDay(LocalDay(t))
GetDate(t) == DayOfMonth(LocalDay(t))
GetDay(t) == (LocalDay(t) + 4) % 7

\* An ISO 8601 date-time string, by its fields: "y-m-dTh:mi:s" followed by "Z"
\* when utc, and read as local time otherwise (<input type="datetime-local">).
IsoString(y, m, d, h, mi, s, utc) ==
    [kind |-> "iso", y |-> y, m |-> m, d |-> d, h |-> h, mi |-> mi, s |-> s, utc |-> utc]

\* the strings "" and "not-a-date"
EmptyString == [kind |-> "empty"]
NotADate == [kind |-> "text"]

\* Date.prototype.toISOString of the instant t
ToISOString(t) ==
    LET n == t \div SecondsPerDay
        r == t % SecondsPerDay
    IN  IsoString(YearOfDay(n), MonthOfDay(n), DayOfMonth(n),
                  r \div 3600, (r % 3600) \div 60, r % 60, TRUE)

\* date-fns parseISO: Invalid Date unless the string is a date-time whose
\* fields are in range (24:00:00 is accepted as the end of the day)
ParseISO(str) ==
    IF str.kind # "iso" THEN InvalidDate
    ELSE IF ~ /\ str.m \in 1..12
              /\ str.d \in 1..DaysInMonth(str.y, str.m)
              /\ \/ str.h \in 0..23 /\ str.mi \in 0..59 /\ str.s \in 0..59
                 \/ str.h = 24 /\ str.mi = 0 /\ str.s = 0
         THEN InvalidDate
    ELSE DateOf(DaysFromCivil(str.y, str.m, str.d) * SecondsPerDay
                + str.h * 3600 + str.mi * 60 + str.s
                - (IF str.utc THEN 0 ELSE TimezoneOffset))

\* date-fns isValid
IsValid(date) == date.kind = "date"

\* format(date, "yyyy-MM-dd'T'HH:mm:ss"): the local date-time string of t
FormatLocal(t) ==
    LET r == LocalSecondOfDay(t)
    IN  IsoString(GetFullYear(t), GetMonth(t), GetDate(t),
                  r \div 3600, (r % 3600) \div 60, r % 60, FALSE)

----------------------------------------------------------------------------
(* Attendees and events *)

Attendee(id, name) == [id |-> id, name |-> name]

\* an event id: "evt" followed by a number ("evt1", `evt${Date.now()}`)
EventId(n) == <<"evt", n>>

mockUser == Attendee("user1", "You")
Alice == Attendee("user2", "Alice")
Bob == Attendee("user3", "Bob")
Charlie == Attendee("user4", "Charlie")

\* A text is a sequence of pieces: a piece is the whitespace character " " or
\* a run of characters without leading or trailing whitespace.
Text(s) == <<s>>

\* The mock events the list starts with, for a page loaded at the instant t
initialEvents(t) ==
    LET y == GetFullYear(t)
        m == GetMonth(t)
    IN  << [ id |-> EventId(1),
             title |-> Text("Team Sync & Lunch"),
             date |-> ToISOString(LocalInstant(y, m, 15, 13, 0, 0)),
             description |-> Text("Quick sync on project updates followed by team lunch."),
             location |-> Text("Office Cafeteria & Downtown Deli"),
             attendees |-> <<mockUser, Alice>>,
             maxAttendees |-> Num(10),
             createdBy |-> Alice ],
           [ id |-> EventId(2),
             title |-> Text("Weekend Hike: Summit Trail"),
             date |-> ToISOString(LocalInstant(y, m, 22, 9, 0, 0)),
             description |-> Text("Challenging but rewarding hike. Pack essentials!"),
             location |-> Text("Summit Trail Head"),
             attendees |-> <<Bob>>,
             maxAttendees |-> Undefined,
             createdBy |-> Bob ],
           [ id |-> EventId(3),
             title |-> Text("Game Night: Strategy Edition"),
             date |-> ToISOString(LocalInstant(y, m + 1, 5, 19, 0, 0)),
             description |-> Text("Let's play some complex board games. Snacks provided."),
             location |-> Text("Community Center Room 3"),
             attendees |-> <<mockUser>>,
             maxAttendees |-> Num(8),
             createdBy |-> mockUser ],
           [ id |-> EventId(4),
             title |-> Text("Design Review"),
             date |-> ToISOString(LocalInstant(y, m, GetDate(t), 10, 0, 0)),
             description |-> Text("Review the latest UI mockups."),
             location |-> Text("Online Meeting"),
             attendees |-> <<mockUser, Alice, Charlie>>,
             maxAttendees |-> Num(5),
             createdBy |-> Alice ] >>

----------------------------------------------------------------------------
(* Toast notifications *)

\* delay of the timer that clears a notification, in seconds
ToastDelay == 3

\* the arguments of one showToast call; the message is a template and the
\* event title it quotes
Toast(template, title, type) == [message |-> <<template, title>>, type |-> type]

\* the notification after showToast was called with each of toasts in turn
NotificationAfter(toasts) ==
    IF toasts = <<>> THEN notification
    ELSE LET t == toasts[Len(toasts)]
         IN  [kind |-> "toast", message |-> t.message, type |-> t.type]

\* the pending timers after showToast was called with each of toasts in turn;
\* the callbacks due at the same instant run together
TimersAfter(toasts) ==
    IF toasts = <<>> THEN timers ELSE timers \cup {now + ToastDelay}

\* showToast called with each of toasts in turn: setNotification, setTimeout
showToast(toasts) ==
    /\ notification' = NotificationAfter(toasts)
    /\ timers' = TimersAfter(toasts)

----------------------------------------------------------------------------
(* handleRsvp *)

\* JavaScript truthiness of an optional number: undefined, NaN and 0 are falsy
Truthy(n) == n.kind = "number" /\ n.val # 0

\* event.attendees.some((a) => a.id === mockUser.id)
IsAttending(event, user) == \E i \in 1..Len(event.attendees) : event.attendees[i].id = user.id

\* IsFull with > in place of >=
IsFullStrict(event) ==
    Truthy(event.maxAttendees) /\ Len(event.attendees) > event.maxAttendees.val

\* IsFull with the last place counted as taken
IsFullEarly(event) ==
    Truthy(event.maxAttendees) /\ Len(event.attendees) >= event.maxAttendees.val - 1

\* event.maxAttendees && event.attendees.length >= event.maxAttendees
IsFull(event) ==
    Truthy(event.maxAttendees) /\ Len(event.attendees) >= event.maxAttendees.val

\* WithoutUser with the test of the filter inverted
OnlyUser(attendees, user) ==
    LET keep(a) == a.id = user.id IN SelectSeq(attendees, keep)

\* event.attendees.filter((a) => a.id !== mockUser.id)
WithoutUser(attendees, user) ==
    LET keep(a) == a.id # user.id IN SelectSeq(attendees, keep)

\* RsvpCallback without the isAttending test: the user is always added
RsvpCallbackAlwaysJoins(event, eventId) ==
    IF event.id = eventId THEN
        IF IsFull(event) THEN
            [ event |-> event,
              toasts |-> <<Toast("is full", event.title, "error")>> ]
        ELSE
            [ event |-> [event EXCEPT !.attendees = Append(event.attendees, mockUser)],
              toasts |-> <<Toast("rsvp joined", event.title, "success")>> ]
    ELSE [ event |-> event, toasts |-> <<>> ]

\* RsvpCallback with the capacity test made before the isAttending test
RsvpCallbackFullFirst(event, eventId) ==
    IF event.id = eventId THEN
        IF IsFull(event) THEN
            [ event |-> event,
              toasts |-> <<Toast("is full", event.title, "error")>> ]
        ELSE IF IsAttending(event, mockUser) THEN
            [ event |-> [event EXCEPT !.attendees = WithoutUser(event.attendees, mockUser)],
              toasts |-> <<Toast("rsvp canceled", event.title, "success")>> ]
        ELSE
            [ event |-> [event EXCEPT !.attendees = Append(event.attendees, mockUser)],
              toasts |-> <<Toast("rsvp joined", event.title, "success")>> ]
    ELSE [ event |-> event, toasts |-> <<>> ]

\* RsvpCallback with the user put first: [mockUser, ...event.attendees]
RsvpCallbackPrepends(event, eventId) ==
    IF event.id = eventId THEN
        IF IsAttending(event, mockUser) THEN
            [ event |-> [event EXCEPT !.attendees = WithoutUser(event.attendees, mockUser)],
              toasts |-> <<Toast("rsvp canceled", event.title, "success")>> ]
        ELSE IF IsFull(event) THEN
            [ event |-> event,
              toasts |-> <<Toast("is full", event.title, "error")>> ]
        ELSE
            [ event |-> [event EXCEPT !.attendees = <<mockUser>> \o event.attendees],
              toasts |-> <<Toast("rsvp joined", event.title, "success")>> ]
    ELSE [ event |-> event, toasts |-> <<>> ]

\* RsvpCallback without the test of the event id
RsvpCallbackAnyEvent(event, eventId) ==
    IF IsAttending(event, mockUser) THEN
        [ event |-> [event EXCEPT !.attendees = WithoutUser(event.attendees, mockUser)],
          toasts |-> <<Toast("rsvp canceled", event.title, "success")>> ]
    ELSE IF IsFull(event) THEN
        [ event |-> event,
          toasts |-> <<Toast("is full", event.title, "error")>> ]
    ELSE
        [ event |-> [event EXCEPT !.attendees = Append(event.attendees, mockUser)],
          toasts |-> <<Toast("rsvp joined", event.title, "success")>> ]

\* RsvpCallback without the showToast call of the full event
RsvpCallbackSilentFull(event, eventId) ==
    IF event.id = eventId THEN
        IF IsAttending(event, mockUser) THEN
            [ event |-> [event EXCEPT !.attendees = WithoutUser(event.attendees, mockUser)],
              toasts |-> <<Toast("rsvp canceled", event.title, "success")>> ]
        ELSE IF IsFull(event) THEN
            [ event |-> event, toasts |-> <<>> ]
        ELSE
            [ event |-> [event EXCEPT !.attendees = Append(event.attendees, mockUser)],
              toasts |-> <<Toast("rsvp joined", event.title, "success")>> ]
    ELSE [ event |-> event, toasts |-> <<>> ]

\* The callback handleRsvp maps over prevEvents: the event it returns and the
\* showToast calls it makes.
RsvpCallback(event, eventId) ==
    IF event.id = eventId THEN
        IF IsAttending(event, mockUser) THEN
            [ event |-> [event EXCEPT !.attendees = WithoutUser(event.attendees, mockUser)],
              toasts |-> <<Toast("rsvp canceled", event.title, "success")>> ]
        ELSE IF IsFull(event) THEN
            [ event |-> event,
              toasts |-> <<Toast("is full", event.title, "error")>> ]
        ELSE
            [ event |-> [event EXCEPT !.attendees = Append(event.attendees, mockUser)],
              toasts |-> <<Toast("rsvp joined", event.title, "success")>> ]
    ELSE [ event |-> event, toasts |-> <<>> ]

\* RsvpEvents with the changed events moved to the end: [...others, ...changed]
RsvpEventsReordered(prevEvents, eventId) ==
    LET other(e) == e.id # eventId
        target(e) == e.id = eventId
        changed == SelectSeq(prevEvents, target)
    IN  SelectSeq(prevEvents, other)
        \o [i \in 1..Len(changed) |-> RsvpCallback(changed[i], eventId).event]

\* prevEvents.map(callback): the new event list
RsvpEvents(prevEvents, eventId) ==
    [i \in 1..Len(prevEvents) |-> RsvpCallback(prevEvents[i], eventId).event]

RECURSIVE RsvpToasts(_, _)
\* the showToast calls made while prevEvents is mapped, in order
RsvpToasts(prevEvents, eventId) ==
    IF prevEvents = <<>> THEN <<>>
    ELSE RsvpCallback(Head(prevEvents), eventId).toasts \o RsvpToasts(Tail(prevEvents), eventId)

\* the record kept of a call
Call(op, arg, before, toasts) ==
    [op |-> op, arg |-> arg, before |-> before, toasts |-> toasts]

NoCall == [op |-> "none"]

\* an event id no event of the list has
UnknownId == EventId(0)

\* the event ids handleRsvp is called with
RsvpIds == {events[i].id : i \in 1..Len(events)} \cup {UnknownId}

handleRsvp(eventId) ==
    /\ events' = RsvpEvents(events, eventId)
    /\ showToast(RsvpToasts(events, eventId))
    /\ UNCHANGED <<currentMonth, selectedDate, isAddEventModalOpen, errors, now, loadedAt>>

----------------------------------------------------------------------------
(* AddEventForm and handleAddEvent *)

RECURSIVE TrimStart(_)
\* the text without its leading whitespace
TrimStart(text) ==
    IF text # <<>> /\ Head(text) = " " THEN TrimStart(Tail(text)) ELSE text

RECURSIVE TrimEnd(_)
\* the text without its trailing whitespace
TrimEnd(text) ==
    IF text # <<>> /\ text[Len(text)] = " "
    THEN TrimEnd(SubSeq(text, 1, Len(text) - 1)) ELSE text

\* String.prototype.trim
Trim(text) == TrimEnd(TrimStart(text))

Digits == <<"0", "1", "2", "3", "4", "5", "6", "7", "8", "9">>

IsDigit(c) == \E i \in 1..Len(Digits) : Digits[i] = c

DigitValue(c) == (CHOOSE i \in 1..Len(Digits) : Digits[i] = c) - 1

RECURSIVE LeadingDigits(_)
\* the longest prefix of text made of digits
LeadingDigits(text) ==
    IF text # <<>> /\ IsDigit(Head(text))
    THEN <<Head(text)>> \o LeadingDigits(Tail(text)) ELSE <<>>

RECURSIVE DecimalValue(_)
\* the number a sequence of digits denotes
DecimalValue(digits) ==
    IF digits = <<>> THEN 0
    ELSE 10 * DecimalValue(SubSeq(digits, 1, Len(digits) - 1))
         + DigitValue(digits[Len(digits)])

\* Number.parseInt(text, 10): leading whitespace is skipped, a sign is read,
\* then digits up to the first other character; NaN when there is no digit
ParseInt(text) ==
    LET t == TrimStart(text)
        signed == t # <<>> /\ Head(t) \in {"+", "-"}
        digits == LeadingDigits(IF signed THEN Tail(t) ELSE t)
    IN  IF digits = <<>> THEN NaN
        ELSE IF signed /\ Head(t) = "-" THEN Num(0 - DecimalValue(digits))
        ELSE Num(DecimalValue(digits))

\* the fields of the form: title, date, description, location, maxAttendees
Draft(title, date, description, location, maxAttendees) ==
    [ title |-> title, date |-> date, description |-> description,
      location |-> location, maxAttendees |-> maxAttendees ]

\* date-fns isBefore
IsBefore(date, dateToCompare) == date.time < dateToCompare.time

\* grace window of validateForm for dates in the past, in seconds
GraceWindow == 60

\* validateForm: the message of the title field, "" when it has none
TitleError(draft) ==
    IF Trim(draft.title) = <<>> THEN "Title is required." ELSE ""

\* DateError without the buffer of one minute
DateErrorNoGrace(draft) ==
    IF draft.date = EmptyString THEN "Date and time are required."
    ELSE IF ~IsValid(ParseISO(draft.date)) THEN "Invalid date/time format."
    ELSE IF IsBefore(ParseISO(draft.date), DateOf(now))
         THEN "Date/time cannot be in the past."
    ELSE ""

\* validateForm: the message of the date field, "" when it has none
DateError(draft) ==
    IF draft.date = EmptyString THEN "Date and time are required."
    ELSE IF ~IsValid(ParseISO(draft.date)) THEN "Invalid date/time format."
    ELSE IF /\ IsBefore(ParseISO(draft.date), DateOf(now))
            /\ IsBefore(ParseISO(draft.date), DateOf(now - GraceWindow))
         THEN "Date/time cannot be in the past."
    ELSE ""

\* validateForm: the message of the location field, "" when it has none
LocationError(draft) ==
    IF Trim(draft.location) = <<>> THEN "Location is required." ELSE ""

\* MaxAttendeesError without the test of the sign
MaxAttendeesUnchecked(draft) == ""

\* validateForm: the message of the maxAttendees field, "" when it has none
MaxAttendeesError(draft) ==
    IF /\ draft.maxAttendees # <<>>
       /\ ParseInt(draft.maxAttendees).kind = "number"
       /\ ParseInt(draft.maxAttendees).val <= 0
    THEN "Max attendees must be a positive number." ELSE ""

\* validateForm: newErrors, the messages by field
NewErrors(draft) ==
    LET all == [ title |-> TitleError(draft), date |-> DateError(draft),
                 location |-> LocationError(draft),
                 maxAttendees |-> MaxAttendeesError(draft) ]
    IN  [f \in {g \in DOMAIN all : all[g] # ""} |-> all[f]]

\* validateForm returning true for every draft
validateFormAlwaysTrue(draft) == TRUE

\* validateForm: isValidForm, the value it returns
validateForm(draft) == DOMAIN NewErrors(draft) = {}

\* NewEventData without the calls of trim
NewEventDataUntrimmed(draft) ==
    [ title |-> draft.title,
      date |-> draft.date,
      description |-> draft.description,
      location |-> draft.location,
      maxAttendees |-> IF draft.maxAttendees # <<>>
                       THEN ParseInt(draft.maxAttendees) ELSE Undefined ]

\* handleSubmit: the argument of onAddEvent
NewEventData(draft) ==
    [ title |-> Trim(draft.title),
      date |-> draft.date,
      description |-> Trim(draft.description),
      location |-> Trim(draft.location),
      maxAttendees |-> IF draft.maxAttendees # <<>>
                       THEN ParseInt(draft.maxAttendees) ELSE Undefined ]

\* NewEvent with an empty attendee list
NewEventWithoutCreator(newEventData) ==
    [ id |-> EventId(now),
      title |-> newEventData.title,
      date |-> ToISOString(ParseISO(newEventData.date).time),
      description |-> newEventData.description,
      location |-> newEventData.location,
      attendees |-> <<>>,
      maxAttendees |-> newEventData.maxAttendees,
      createdBy |-> mockUser ]

\* handleAddEvent: the event created from newEventData
NewEvent(newEventData) ==
    [ id |-> EventId(now),
      title |-> newEventData.title,
      date |-> ToISOString(ParseISO(newEventData.date).time),
      description |-> newEventData.description,
      location |-> newEventData.location,
      attendees |-> <<mockUser>>,
      maxAttendees |-> newEventData.maxAttendees,
      createdBy |-> mockUser ]

\* handleAddEvent: the showToast calls it makes
AddEventToasts(newEventData) ==
    IF ~IsValid(ParseISO(newEventData.date))
    THEN <<Toast("invalid date", <<>>, "error")>>
    ELSE <<Toast("created", newEventData.title, "success")>>

\* handleAddEvent without the test of the parsed date: the date string is
\* stored as it was given
handleAddEventUnchecked(newEventData) ==
    /\ events' = Append(events, [ id |-> EventId(now),
                                  title |-> newEventData.title,
                                  date |-> newEventData.date,
                                  description |-> newEventData.description,
                                  location |-> newEventData.location,
                                  attendees |-> <<mockUser>>,
                                  maxAttendees |-> newEventData.maxAttendees,
                                  createdBy |-> mockUser ])
    /\ selectedDate' = ParseISO(newEventData.date)
    /\ isAddEventModalOpen' = FALSE
    /\ showToast(<<Toast("created", newEventData.title, "success")>>)

\* handleAddEvent with the events of the list left out: setEvents([newEvent])
handleAddEventAlone(newEventData) ==
    IF ~IsValid(ParseISO(newEventData.date)) THEN
        /\ showToast(AddEventToasts(newEventData))
        /\ UNCHANGED <<events, selectedDate, isAddEventModalOpen>>
    ELSE
        /\ events' = <<NewEvent(newEventData)>>
        /\ selectedDate' = ParseISO(newEventData.date)
        /\ isAddEventModalOpen' = FALSE
        /\ showToast(AddEventToasts(newEventData))

\* handleAddEvent(newEventData)
handleAddEvent(newEventData) ==
    IF ~IsValid(ParseISO(newEventData.date)) THEN
        /\ showToast(AddEventToasts(newEventData))
        /\ UNCHANGED <<events, selectedDate, isAddEventModalOpen>>
    ELSE
        /\ events' = Append(events, NewEvent(newEventData))
        /\ selectedDate' = ParseISO(newEventData.date)
        /\ isAddEventModalOpen' = FALSE
        /\ showToast(AddEventToasts(newEventData))

\* a draft that validateForm accepts: a date 40 days ahead, maxAttendees "1"
DraftAhead ==
    Draft(<<" ", "Sync", " ">>, FormatLocal(now + 40 * SecondsPerDay),
          <<"Bring snacks", " ">>, <<"X">>, <<"1">>)

\* a draft that validateForm rejects on every field
DraftBlank ==
    Draft(<<" ">>, NotADate, <<"Bring snacks", " ">>, <<" ">>, <<"-", "1">>)

\* the drafts the form is submitted with
Drafts ==
    LET title == <<" ", "Sync", " ">>
        notes == <<"Bring snacks", " ">>
    IN  { DraftAhead,
          Draft(title, FormatLocal(now - 5), <<>>, <<"X", " ">>, <<"a">>),
          Draft(title, FormatLocal(now + 3600), notes, <<"X">>, <<"0">>),
          DraftBlank,
          Draft(title, FormatLocal(now - 5 * 60), notes, <<"X">>, <<>>),
          Draft(title, FormatLocal(now - GraceWindow), notes, <<" ">>, <<>>),
          Draft(title, FormatLocal(now - GraceWindow - 1), notes, <<"X">>, <<>>),
          Draft(<<>>, FormatLocal(now + 3600), notes, <<"X">>, <<>>),
          Draft(title, EmptyString, <<>>, <<"X">>, <<>>) }

\* the number of events the list starts with
InitialCount == Len(initialEvents(now))

\* handleSubmit with the form holding draft
handleSubmit(draft) ==
    /\ isAddEventModalOpen
    /\ validateForm(draft) =>
          Len(events) < InitialCount + MaxNewEvents
    /\ errors' = NewErrors(draft)
    /\ IF validateForm(draft)
       THEN handleAddEvent(NewEventData(draft))
       ELSE UNCHANGED <<events, selectedDate, isAddEventModalOpen, notification, timers>>
    /\ UNCHANGED <<currentMonth, now, loadedAt>>

\* openAddEventModal: the form is mounted with its initial state
openAddEventModal ==
    /\ ~isAddEventModalOpen
    /\ isAddEventModalOpen' = TRUE
    /\ errors' = <<>>
    /\ UNCHANGED <<events, currentMonth, selectedDate, notification, timers,
                   now, loadedAt>>

\* closeAddEventModal: the close button, Cancel, Escape or the backdrop; the
\* form is unmounted
closeAddEventModal ==
    /\ isAddEventModalOpen
    /\ isAddEventModalOpen' = FALSE
    /\ errors' = <<>>
    /\ UNCHANGED <<events, currentMonth, selectedDate, notification, timers,
                   now, loadedAt>>

----------------------------------------------------------------------------
(* The calendar grid, month navigation and day selection *)

\* date-fns startOfMonth: the first day of the month, 00:00:00
startOfMonth(date) ==
    DateOf(LocalInstant(GetFullYear(date.time), GetMonth(date.time), 1, 0, 0, 0))

\* date-fns endOfMonth: the last day of the month, 23:59:59
endOfMonth(date) ==
    LET y == GetFullYear(date.time)
        m == GetMonth(date.time)
    IN  DateOf(LocalInstant(y, m, DaysInMonth(y, m), 23, 59, 59))

\* startOfWeek with the week starting on Monday
startOfWeekMonday(date) ==
    DateOf((LocalDay(date.time) - ((GetDay(date.time) + 6) % 7)) * SecondsPerDay
           - TimezoneOffset)

\* date-fns startOfWeek: the Sunday on or before the day, 00:00:00
startOfWeek(date) ==
    DateOf((LocalDay(date.time) - GetDay(date.time)) * SecondsPerDay - TimezoneOffset)

\* date-fns endOfWeek: the Saturday on or after the day, 23:59:59
endOfWeek(date) ==
    DateOf((LocalDay(date.time) + (6 - GetDay(date.time))) * SecondsPerDay
           + SecondsPerDay - 1 - TimezoneOffset)

\* date-fns addDays: the same local time, amount days later
addDays(date, amount) == DateOf(date.time + amount * SecondsPerDay)

\* date-fns addMonths: the same day and local time amount months later, or
\* the last day of that month when it has no such day
addMonths(date, amount) ==
    LET t == date.time
        n == GetFullYear(t) * 12 + (GetMonth(t) - 1) + amount
        y == n \div 12
        m == (n % 12) + 1
        d == IF GetDate(t) > DaysInMonth(y, m) THEN DaysInMonth(y, m) ELSE GetDate(t)
    IN  DateOf(LocalInstant(y, m, d, 0, 0, LocalSecondOfDay(t)))

\* subMonths as a month of 30 days
subMonthsThirtyDays(date, amount) == addDays(date, 0 - 30 * amount)

\* date-fns subMonths
subMonths(date, amount) == addMonths(date, 0 - amount)

\* date-fns isSameMonth, isSameDay
isSameMonth(dateLeft, dateRight) ==
    /\ GetFullYear(dateLeft.time) = GetFullYear(dateRight.time)
    /\ GetMonth(dateLeft.time) = GetMonth(dateRight.time)

isSameDay(dateLeft, dateRight) == LocalDay(dateLeft.time) = LocalDay(dateRight.time)

\* the for loop of calendarDays: the 7 days pushed from day on, each the day
\* after the one before it
WeekFrom(day) == [i \in 1..7 |-> addDays(day, i - 1)]

\* the while loop of calendarDays: the number of times its body runs, the
\* value of day being 7 days later after each
RowCount(startDate, endDate) ==
    CHOOSE n \in 0..7 :
        /\ addDays(startDate, 7 * n).time > endDate.time
        /\ \A k \in 0..(n - 1) : addDays(startDate, 7 * k).time <= endDate.time

\* the rows of the calendar of the month of the date
CalendarRows(month) ==
    LET monthStart == startOfMonth(month)
        monthEnd == endOfMonth(monthStart)
        startDate == startOfWeek(monthStart)
        endDate == endOfWeek(monthEnd)
    IN  [r \in 1..RowCount(startDate, endDate) |-> WeekFrom(addDays(startDate, 7 * (r - 1)))]

\* useMemo(..., [currentMonth])
calendarDays == CalendarRows(currentMonth)

RECURSIVE FlatFrom(_, _)
\* the rows from row r on, one after the other
FlatFrom(rows, r) ==
    IF r > Len(rows) THEN <<>> ELSE rows[r] \o FlatFrom(rows, r + 1)

\* Array.prototype.flat
Flat(rows) == FlatFrom(rows, 1)

\* months from the month of the instant a to the month of the instant b
MonthsBetween(a, b) ==
    (GetFullYear(b) * 12 + GetMonth(b)) - (GetFullYear(a) * 12 + GetMonth(a))

handlePrevMonth ==
    /\ MonthsBetween(loadedAt, currentMonth.time) > 0 - MaxMonthShift
    /\ currentMonth' = subMonths(currentMonth, 1)
    /\ selectedDate' = Null
    /\ UNCHANGED <<events, isAddEventModalOpen, notification, timers, errors,
                   now, loadedAt>>

handleNextMonth ==
    /\ MonthsBetween(loadedAt, currentMonth.time) < MaxMonthShift
    /\ currentMonth' = addMonths(currentMonth, 1)
    /\ selectedDate' = Null
    /\ UNCHANGED <<events, isAddEventModalOpen, notification, timers, errors,
                   now, loadedAt>>

\* the Today button: setCurrentMonth(new Date()); setSelectedDate(new Date())
TodayClick ==
    /\ currentMonth' = DateOf(now)
    /\ selectedDate' = DateOf(now)
    /\ UNCHANGED <<events, isAddEventModalOpen, notification, timers, errors,
                   now, loadedAt>>

handleDateClick(day) ==
    /\ selectedDate' = day
    /\ UNCHANGED <<events, currentMonth, isAddEventModalOpen, notification, timers,
                   errors, now, loadedAt>>

\* the click on the cell of the grid that shows day:
\* isCurrentMonthDay && handleDateClick(day)
DayCellClick(day) ==
    /\ isSameMonth(day, currentMonth)
    /\ handleDateClick(day)

\* the click on any cell of the grid: calendarDays.flat().map(...)
DayClick ==
    LET cells == Flat(calendarDays)
    IN  \E k \in 1..Len(cells) : DayCellClick(cells[k])

----------------------------------------------------------------------------
(* The events of a day: eventsByDate and eventsOnSelectedDate *)

\* DateKey with the day taken from the ISO string: event.date.slice(0, 10)
DateKeyUtc(date) ==
    LET n == date.time \div SecondsPerDay
    IN  <<YearOfDay(n), MonthOfDay(n), DayOfMonth(n)>>

\* format(date, "yyyy-MM-dd"): the local calendar day, by its fields
DateKey(date) == <<GetFullYear(date.time), GetMonth(date.time), GetDate(date.time)>>

\* map.set(key, value) on a Map held as a function from its keys
MapSet(map, key, value) ==
    [k \in DOMAIN map \cup {key} |-> IF k = key THEN value ELSE map[k]]

RECURSIVE GroupFrom(_, _, _)
\* events.forEach of eventsByDate, from the event at position i on
GroupFrom(list, i, map) ==
    IF i > Len(list) THEN map
    ELSE IF IsValid(ParseISO(list[i].date))
    THEN LET dateKey == DateKey(ParseISO(list[i].date))
             existing == IF dateKey \in DOMAIN map THEN map[dateKey] ELSE <<>>
         IN  GroupFrom(list, i + 1, MapSet(map, dateKey, Append(existing, list[i])))
    ELSE GroupFrom(list, i + 1, map)

\* useMemo(..., [events]): the events with a valid date, grouped by day
eventsByDate == GroupFrom(events, 1, <<>>)

\* getTime of the parsed date of the event
EventTime(event) == ParseISO(event.date).time

\* InsertByTime with the event put before the events of the same instant
InsertBeforeEqual(sorted, event) ==
    LET before(e) == EventTime(e) < EventTime(event)
        after(e) == EventTime(e) >= EventTime(event)
    IN  SelectSeq(sorted, before) \o <<event>> \o SelectSeq(sorted, after)

\* the sorted list with one more event: after the events that are not later
InsertByTime(sorted, event) ==
    LET before(e) == EventTime(e) <= EventTime(event)
        after(e) == EventTime(e) > EventTime(event)
    IN  SelectSeq(sorted, before) \o <<event>> \o SelectSeq(sorted, after)

RECURSIVE SortFrom(_, _, _)
\* Array.prototype.sort with the comparator a.getTime() - b.getTime(): a
\* stable sort, the events from position i on put into sorted one by one
SortFrom(list, i, sorted) ==
    IF i > Len(list) THEN sorted
    ELSE SortFrom(list, i + 1, InsertByTime(sorted, list[i]))

\* useMemo(..., [selectedDate, events]): the events of the selected day
eventsOnSelectedDate ==
    IF selectedDate = Null THEN <<>>
    ELSE LET onDay(event) == /\ IsValid(ParseISO(event.date))
                             /\ isSameDay(ParseISO(event.date), selectedDate)
         IN  SortFrom(SelectSeq(events, onDay), 1, <<>>)

----------------------------------------------------------------------------
(* EventCard *)

\* event.attendees.some((a) => a.id === currentUser.id)
isAttending(event, currentUser) ==
    \E i \in 1..Len(event.attendees) : event.attendees[i].id = currentUser.id

\* !!event.maxAttendees && event.attendees.length >= event.maxAttendees
isFull(event) ==
    Truthy(event.maxAttendees) /\ Len(event.attendees) >= event.maxAttendees.val

\* canRsvp with the control disabled on every full event
canRsvpWhenFull(event, currentUser) == isFull(event)

\* const canRsvp = !isAttending && isFull: the value of the disabled
\* attribute of the RSVP button
canRsvp(event, currentUser) == ~isAttending(event, currentUser) /\ isFull(event)

\* the disabled attribute of the RSVP button of each card of the list:
\* <EventCard event={event} onRsvp={handleRsvp} currentUser={mockUser} />
RsvpDisabled(list) == [i \in 1..Len(list) |-> canRsvp(list[i], mockUser)]

----------------------------------------------------------------------------
(* The timer of showToast and the clock *)

\* setTimeout(() => setNotification(null), 3000): the callback of the timer
\* that is due
TimerFires ==
    /\ \E due \in timers : due <= now
    /\ notification' = Null
    /\ timers' = {due \in timers : due > now}
    /\ UNCHANGED <<events, currentMonth, selectedDate, isAddEventModalOpen, errors,
                   now, loadedAt>>

\* the close button of the toast: onClick={() => setNotification(null)}
CloseToast ==
    /\ notification # Null
    /\ notification' = Null
    /\ UNCHANGED <<events, currentMonth, selectedDate, isAddEventModalOpen, errors,
                   timers, now, loadedAt>>

\* time passes, as long as the notification delay; a timer that is due fires
\* before the clock moves on
Tick ==
    /\ now < loadedAt + MaxTicks * ToastDelay
    /\ \A due \in timers : due > now
    /\ now' = now + ToastDelay
    /\ UNCHANGED <<events, currentMonth, selectedDate, isAddEventModalOpen, errors,
                   notification, timers, loadedAt>>

\* one second passes; a timer that is due fires before the clock moves on
Second ==
    /\ now < loadedAt + MaxSeconds
    /\ \A due \in timers : due > now
    /\ now' = now + 1
    /\ UNCHANGED <<events, currentMonth, selectedDate, isAddEventModalOpen, errors,
                   notification, timers, loadedAt>>

----------------------------------------------------------------------------
(* The page *)

\* clock readings at which the page is loaded: 2025-01-31 10:30:00, local time
LoadInstants == { LocalInstant(2025, 1, 31, 10, 30, 0) }

Init ==
    /\ now \in LoadInstants
    /\ loadedAt = now
    /\ events = initialEvents(now)
    /\ currentMonth = DateOf(now)
    /\ selectedDate = DateOf(now)
    /\ isAddEventModalOpen = FALSE
    /\ notification = Null
    /\ timers = {}
    /\ errors = <<>>
    /\ lastCall = NoCall
    /\ prevCall = NoCall

\* every handler and callback of the page
Next ==
    \/ \E eventId \in RsvpIds : handleRsvp(eventId) /\ UNCHANGED observed
    \/ openAddEventModal /\ UNCHANGED observed
    \/ closeAddEventModal /\ UNCHANGED observed
    \/ \E draft \in Drafts : handleSubmit(draft) /\ UNCHANGED observed
    \/ handlePrevMonth /\ UNCHANGED observed
    \/ handleNextMonth /\ UNCHANGED observed
    \/ TodayClick /\ UNCHANGED observed
    \/ DayClick /\ UNCHANGED observed
    \/ TimerFires /\ UNCHANGED observed
    \/ CloseToast /\ UNCHANGED observed
    \/ Tick /\ UNCHANGED observed

Spec == Init /\ [][Next]_vars

\* Every kind of handler and callback of the page, each with a few inputs:
\* the RSVP toggle on the first event and on an unknown id, the form submitted
\* with one draft that is accepted and one that is rejected, the click on the
\* cell of the first day of the displayed month
NextPage ==
    \/ \E eventId \in {events[1].id, UnknownId} :
          handleRsvp(eventId) /\ UNCHANGED observed
    \/ openAddEventModal /\ UNCHANGED observed
    \/ closeAddEventModal /\ UNCHANGED observed
    \/ \E draft \in {DraftAhead, DraftBlank} : handleSubmit(draft) /\ UNCHANGED observed
    \/ handlePrevMonth /\ UNCHANGED observed
    \/ handleNextMonth /\ UNCHANGED observed
    \/ TodayClick /\ UNCHANGED observed
    \/ DayCellClick(startOfMonth(currentMonth)) /\ UNCHANGED observed
    \/ TimerFires /\ UNCHANGED observed
    \/ CloseToast /\ UNCHANGED observed
    \/ Tick /\ UNCHANGED observed

SpecPage == Init /\ [][NextPage]_vars

\* Event creations and RSVP toggles, in any order, at one clock reading
NextEvents ==
    \/ \E eventId \in RsvpIds : handleRsvp(eventId) /\ UNCHANGED observed
    \/ openAddEventModal /\ UNCHANGED observed
    \/ closeAddEventModal /\ UNCHANGED observed
    \/ \E draft \in Drafts : handleSubmit(draft) /\ UNCHANGED observed

SpecEvents == Init /\ [][NextEvents]_vars

----------------------------------------------------------------------------
(* handleRsvp applied to any event list *)

Users == {mockUser, Alice, Bob}

\* the attendee lists without a duplicate
Rosters ==
    { r \in UNION { [1..n -> Users] : n \in 0..Cardinality(Users) } :
        \A i, j \in DOMAIN r : r[i] = r[j] => i = j }

\* the values of maxAttendees: absent or a positive integer
Capacities == {Undefined} \cup { Num(k) : k \in 1..MaxCapacity }

\* the event lists handleRsvp is applied to: the initial events, one of them
\* with any attendee list and any maxAttendees
EventLists ==
    { [initialEvents(now) EXCEPT ![k].attendees = r, ![k].maxAttendees = c] :
        k \in 1..InitialCount, r \in Rosters, c \in Capacities }

InitRsvp ==
    /\ now \in LoadInstants
    /\ loadedAt = now
    /\ events \in EventLists
    /\ currentMonth = DateOf(now)
    /\ selectedDate = DateOf(now)
    /\ isAddEventModalOpen = FALSE
    /\ notification = Null
    /\ timers = {}
    /\ errors = <<>>
    /\ lastCall = NoCall
    /\ prevCall = NoCall

\* handleRsvp is called and the call is recorded
RsvpCall(eventId) ==
    /\ handleRsvp(eventId)
    /\ lastCall' = Call("handleRsvp", eventId, events, RsvpToasts(events, eventId))
    /\ prevCall' = lastCall

NextRsvp == \E eventId \in RsvpIds : RsvpCall(eventId)

SpecRsvp == InitRsvp /\ [][NextRsvp]_vars

----------------------------------------------------------------------------
(* Event creation: the form and handleAddEvent, with the calls recorded *)

\* the record kept of a call of handleSubmit: the draft, the event list before
\* the call, the clock reading of the call and the errors the form then shows
Submission(draft, before, at, errs) ==
    [op |-> "handleSubmit", arg |-> draft, before |-> before, at |-> at, errors |-> errs]

\* the record kept of a call of handleAddEvent
Addition(newEventData, before, at) ==
    [op |-> "handleAddEvent", arg |-> newEventData, before |-> before, at |-> at]

\* handleSubmit is called and the call is recorded
SubmitCall(draft) ==
    /\ handleSubmit(draft)
    /\ lastCall' = Submission(draft, events, now, errors')
    /\ prevCall' = lastCall

\* Event creations through the form, while the clock advances
NextCreate ==
    \/ \E draft \in Drafts : SubmitCall(draft)
    \/ openAddEventModal /\ UNCHANGED observed
    \/ closeAddEventModal /\ UNCHANGED observed
    \/ Tick /\ UNCHANGED observed

SpecCreate == Init /\ [][NextCreate]_vars

\* date strings that do not parse: "", "not-a-date" and the 30th of February
BadDates ==
    { EmptyString, NotADate, IsoString(GetFullYear(now), 2, 30, 10, 0, 0, FALSE) }

\* the values handleAddEvent is called with (the onAddEvent prop): the data of
\* the drafts that pass validateForm, also with a date string that does not
\* parse
EventDatas ==
    LET valid == { NewEventData(draft) : draft \in { d \in Drafts : validateForm(d) } }
    IN  valid \cup { [data EXCEPT !.date = str] : data \in valid, str \in BadDates }

\* handleAddEvent is called and the call is recorded
AddEventCall(newEventData) ==
    /\ IsValid(ParseISO(newEventData.date)) =>
          Len(events) < InitialCount + MaxNewEvents
    /\ handleAddEvent(newEventData)
    /\ UNCHANGED <<currentMonth, errors, now, loadedAt>>
    /\ lastCall' = Addition(newEventData, events, now)
    /\ prevCall' = lastCall

\* handleAddEvent called with any data, next to the creations through the form
NextAddEvent ==
    \/ \E newEventData \in EventDatas : AddEventCall(newEventData)
    \/ \E draft \in Drafts : SubmitCall(draft)
    \/ openAddEventModal /\ UNCHANGED observed
    \/ closeAddEventModal /\ UNCHANGED observed

SpecAddEvent == Init /\ [][NextAddEvent]_vars

----------------------------------------------------------------------------
(* The calendar page loaded at any date: navigation and day selection *)

\* clock readings at which the calendar page is loaded: the last day of every
\* month of the years from 2024 on, at 10:30:00
CalendarLoadInstants ==
    { LocalInstant(y, m, DaysInMonth(y, m), 10, 30, 0) :
        y \in 2024..(2024 + MaxLoadYears), m \in 1..12 }

InitNav ==
    /\ now \in CalendarLoadInstants
    /\ loadedAt = now
    /\ events = initialEvents(now)
    /\ currentMonth = DateOf(now)
    /\ selectedDate = DateOf(now)
    /\ isAddEventModalOpen = FALSE
    /\ notification = Null
    /\ timers = {}
    /\ errors = <<>>
    /\ lastCall = NoCall
    /\ prevCall = NoCall

NextNav ==
    \/ handlePrevMonth /\ UNCHANGED observed
    \/ handleNextMonth /\ UNCHANGED observed
    \/ TodayClick /\ UNCHANGED observed
    \/ DayClick /\ UNCHANGED observed

SpecNav == InitNav /\ [][NextNav]_vars

----------------------------------------------------------------------------
(* eventsByDate and eventsOnSelectedDate applied to any event list *)

\* the date strings of the events of the lists: 13:00 and 02:00 of the 15th
\* of the month of load (02:00 is a time of the 14th in UTC), 23:00 of the
\* 14th, and a string that does not parse
IndexDates ==
    LET y == GetFullYear(now)
        m == GetMonth(now)
    IN  { ToISOString(LocalInstant(y, m, 15, 13, 0, 0)),
          ToISOString(LocalInstant(y, m, 15, 2, 0, 0)),
          ToISOString(LocalInstant(y, m, 14, 23, 0, 0)),
          NotADate }

\* the event lists: up to MaxListLen events with ids evt1, evt2, ... and any
\* of the dates
IndexLists ==
    { [i \in 1..n |-> [initialEvents(now)[1] EXCEPT !.id = EventId(i), !.date = dates[i]]] :
        n \in 0..MaxListLen, dates \in [1..MaxListLen -> IndexDates] }

InitIndex ==
    /\ now \in LoadInstants
    /\ loadedAt = now
    /\ events \in IndexLists
    /\ currentMonth = DateOf(now)
    /\ selectedDate \in {Null, DateOf(now)}
    /\ isAddEventModalOpen = FALSE
    /\ notification = Null
    /\ timers = {}
    /\ errors = <<>>
    /\ lastCall = NoCall
    /\ prevCall = NoCall

\* a day is selected: by a click on its cell or by the Today button
NextIndex ==
    \/ DayClick /\ UNCHANGED observed
    \/ TodayClick /\ UNCHANGED observed

SpecIndex == InitIndex /\ [][NextIndex]_vars

----------------------------------------------------------------------------
(* Notifications, second by second *)

\* handleRsvp on an event of the list, which calls showToast once; the call
\* of showToast is recorded with its instant and the notification it set
ToastCall(eventId) ==
    /\ handleRsvp(eventId)
    /\ lastCall' = [op |-> "showToast", at |-> now, set |-> notification']
    /\ prevCall' = lastCall

\* the user closes the notification
CloseCall ==
    /\ CloseToast
    /\ lastCall' = [op |-> "close"]
    /\ prevCall' = lastCall

NextToast ==
    \/ \E eventId \in {events[1].id, events[2].id} : ToastCall(eventId)
    \/ CloseCall
    \/ TimerFires /\ UNCHANGED observed
    \/ Second /\ UNCHANGED observed

SpecToast == Init /\ [][NextToast]_vars

----------------------------------------------------------------------------
(* Month navigation, call by call *)

\* a handler of the calendar header or of a cell runs; the call is recorded
\* with the month displayed and the event list before it
PrevMonthCall ==
    /\ handlePrevMonth
    /\ lastCall' = Call("handlePrevMonth", currentMonth, events, <<>>)
    /\ prevCall' = lastCall

NextMonthCall ==
    /\ handleNextMonth
    /\ lastCall' = Call("handleNextMonth", currentMonth, events, <<>>)
    /\ prevCall' = lastCall

TodayCall ==
    /\ TodayClick
    /\ lastCall' = Call("today", currentMonth, events, <<>>)
    /\ prevCall' = lastCall

FirstDayCall ==
    /\ DayCellClick(startOfMonth(currentMonth))
    /\ lastCall' = Call("handleDateClick", currentMonth, events, <<>>)
    /\ prevCall' = lastCall

NextMonths ==
    \/ PrevMonthCall
    \/ NextMonthCall
    \/ TodayCall
    \/ FirstDayCall

SpecMonths == InitNav /\ [][NextMonths]_vars

----------------------------------------------------------------------------
(* Properties of the event list and of handleRsvp *)

\* the attendee list holds the user
HasUser(attendees) == \E k \in 1..Len(attendees) : attendees[k].id = mockUser.id

\* maxAttendees is set and the attendee count has reached it
AtCapacity(event) ==
    event.maxAttendees.kind = "number" /\ Len(event.attendees) >= event.maxAttendees.val

\* the positions of the events with this id
Matching(list, eventId) == { i \in 1..Len(list) : list[i].id = eventId }

\* the notification that shows a toast
Shown(toast) == [kind |-> "toast", message |-> toast.message, type |-> toast.type]

JoinedToast(event) == Toast("rsvp joined", event.title, "success")
LeftToast(event) == Toast("rsvp canceled", event.title, "success")
FullToast(event) == Toast("is full", event.title, "error")

\* C1: every event whose maxAttendees is set has at most maxAttendees
\* attendees, in every state reached by event creations and RSVP toggles.
C1_CapacityRespected ==
    \A i \in 1..Len(events) :
        events[i].maxAttendees.kind = "number"
            => Len(events[i].attendees) <= events[i].maxAttendees.val

\* C1 witness: a created event with maxAttendees 1 holds its one attendee
\* while the user has left and joined again an initial event.
C1_Witness ==
    /\ \E i \in 1..Len(events) :
          /\ i > InitialCount
          /\ events[i].maxAttendees = Num(1)
          /\ Len(events[i].attendees) = 1
    /\ events[1].attendees = <<Alice, mockUser>>

\* C2: no attendee list holds two attendees with the same id, in every
\* state reached by event creations and RSVP toggles.
C2_NoDuplicateAttendee ==
    \A i \in 1..Len(events) :
        \A j, k \in 1..Len(events[i].attendees) :
            events[i].attendees[j].id = events[i].attendees[k].id => j = k

\* C2 witness: the user has left and joined again the first event and has
\* joined the second, and an event was created.
C2_Witness ==
    /\ events[1].attendees = <<Alice, mockUser>>
    /\ events[2].attendees = <<Bob, mockUser>>
    /\ Len(events) > InitialCount

\* C3: handleRsvp on an event the user has not joined, whose maxAttendees
\* is set and reached, leaves the event list unchanged and reports the
\* "is full" error, which is not the "joined" outcome.
C3_FullJoinRejected ==
    lastCall.op = "handleRsvp" =>
        \A i \in Matching(lastCall.before, lastCall.arg) :
            LET e == lastCall.before[i]
            IN  (~HasUser(e.attendees) /\ AtCapacity(e))
                    => /\ events = lastCall.before
                       /\ lastCall.toasts = <<FullToast(e)>>
                       /\ notification = Shown(FullToast(e))
                       /\ FullToast(e) # JoinedToast(e)

\* C3 witness: handleRsvp was called on an event that was exactly full and
\* that the user had not joined.
C3_Witness ==
    /\ lastCall.op = "handleRsvp"
    /\ \E i \in Matching(lastCall.before, lastCall.arg) :
          LET e == lastCall.before[i]
          IN  /\ ~HasUser(e.attendees)
              /\ e.maxAttendees.kind = "number"
              /\ Len(e.attendees) = e.maxAttendees.val

\* C4: handleRsvp on an event the user is a member of removes exactly the
\* user from its attendee list and keeps the others in their order, whatever
\* maxAttendees and the attendee count are.
C4_LeaveRemovesUser ==
    lastCall.op = "handleRsvp" =>
        \A i \in Matching(lastCall.before, lastCall.arg) :
            LET e == lastCall.before[i]
            IN  HasUser(e.attendees)
                    => /\ \E k \in 1..Len(e.attendees) :
                             /\ e.attendees[k].id = mockUser.id
                             /\ events[i].attendees =
                                    SubSeq(e.attendees, 1, k - 1)
                                    \o SubSeq(e.attendees, k + 1, Len(e.attendees))
                       /\ lastCall.toasts = <<LeftToast(e)>>

\* C4 witness: the user has left an event that held more attendees than its
\* maxAttendees, the user not the last of them.
C4_Witness ==
    /\ lastCall.op = "handleRsvp"
    /\ \E i \in Matching(lastCall.before, lastCall.arg) :
          LET e == lastCall.before[i]
          IN  /\ HasUser(e.attendees)
              /\ e.maxAttendees.kind = "number"
              /\ Len(e.attendees) > e.maxAttendees.val
              /\ e.attendees[Len(e.attendees)].id # mockUser.id
              /\ Len(events[i].attendees) = Len(e.attendees) - 1

\* C5: handleRsvp on an event the user has not joined and that is not full
\* appends the user at the end of the attendee list.
C5_JoinAppendsUser ==
    lastCall.op = "handleRsvp" =>
        \A i \in Matching(lastCall.before, lastCall.arg) :
            LET e == lastCall.before[i]
            IN  (~HasUser(e.attendees) /\ ~AtCapacity(e))
                    => /\ events[i].attendees = e.attendees \o <<mockUser>>
                       /\ lastCall.toasts = <<JoinedToast(e)>>

\* C5 witness: the user has joined an event that had two attendees and one
\* place left.
C5_Witness ==
    /\ lastCall.op = "handleRsvp"
    /\ \E i \in Matching(lastCall.before, lastCall.arg) :
          LET e == lastCall.before[i]
          IN  /\ ~HasUser(e.attendees)
              /\ Len(e.attendees) = 2
              /\ e.maxAttendees = Num(3)
              /\ Len(events[i].attendees) = 3

\* C6: handleRsvp with an event id no event has leaves the event list
\* unchanged and reports nothing.
C6_UnknownIdNoOp ==
    (lastCall.op = "handleRsvp" /\ Matching(lastCall.before, lastCall.arg) = {})
        => /\ events = lastCall.before
           /\ lastCall.toasts = <<>>

\* C6 witness: handleRsvp was called with an unknown id after a call that
\* changed the list.
C6_Witness ==
    /\ lastCall.op = "handleRsvp"
    /\ Matching(lastCall.before, lastCall.arg) = {}
    /\ prevCall.op = "handleRsvp"
    /\ prevCall.before # lastCall.before

\* the outcomes a call of the RSVP mutation is said to report
Outcomes == {"rsvp joined", "rsvp canceled", "is full", "event not found"}

C8_OnlyTargetAttendeesChange ==
    lastCall.op = "handleRsvp" =>
        /\ Len(events) = Len(lastCall.before)
        /\ \A i \in 1..Len(lastCall.before) :
              /\ i \in DOMAIN events
              /\ [events[i] EXCEPT !.attendees = lastCall.before[i].attendees]
                    = lastCall.before[i]
              /\ lastCall.before[i].id # lastCall.arg => events[i] = lastCall.before[i]

\* C8 witness: a toggle changed the attendee list of an event that is neither
\* the first nor the last of the list.
C8_Witness ==
    /\ lastCall.op = "handleRsvp"
    /\ \E i \in Matching(lastCall.before, lastCall.arg) :
          /\ i > 1
          /\ i < Len(events)
          /\ events[i].attendees # lastCall.before[i].attendees

\* C9: two consecutive toggles by the user on an event that is not full and
\* that the user has not joined report joined, then left, and leave the
\* attendee list of the event as it was before the first toggle.
C9_JoinThenLeaveRestores ==
    ( /\ prevCall.op = "handleRsvp"
      /\ lastCall.op = "handleRsvp"
      /\ prevCall.arg = lastCall.arg )
        => \A i \in Matching(prevCall.before, prevCall.arg) :
             LET e == prevCall.before[i]
             IN  (~HasUser(e.attendees) /\ ~AtCapacity(e))
                     => /\ prevCall.toasts = <<JoinedToast(e)>>
                        /\ lastCall.toasts = <<LeftToast(e)>>
                        /\ events[i].attendees = e.attendees

\* C9 witness: the user has joined and then left an event that had two
\* other attendees and room for more.
C9_Witness ==
    /\ prevCall.op = "handleRsvp"
    /\ lastCall.op = "handleRsvp"
    /\ prevCall.arg = lastCall.arg
    /\ \E i \in Matching(prevCall.before, prevCall.arg) :
          LET e == prevCall.before[i]
          IN  /\ ~HasUser(e.attendees)
              /\ ~AtCapacity(e)
              /\ Len(e.attendees) = 2
              /\ lastCall.before[i].attendees = e.attendees \o <<mockUser>>

\* C10: for an event with maxAttendees 1 whose single attendee is the user,
\* the user's leave and the user's join that follows both succeed and end
\* with the user as the single attendee; while the one place is taken by
\* another attendee, the join of the user is rejected as full and the event
\* list stays unchanged.
C10_SinglePlace ==
    /\ ( /\ prevCall.op = "handleRsvp"
         /\ lastCall.op = "handleRsvp"
         /\ prevCall.arg = lastCall.arg )
           => \A i \in Matching(prevCall.before, prevCall.arg) :
                LET e == prevCall.before[i]
                IN  (e.maxAttendees = Num(1) /\ e.attendees = <<mockUser>>)
                        => /\ prevCall.toasts = <<LeftToast(e)>>
                           /\ lastCall.before[i].attendees = <<>>
                           /\ lastCall.toasts = <<JoinedToast(e)>>
                           /\ events[i].attendees = <<mockUser>>
    /\ lastCall.op = "handleRsvp"
           => \A i \in Matching(lastCall.before, lastCall.arg) :
                LET e == lastCall.before[i]
                IN  ( /\ e.maxAttendees = Num(1)
                      /\ Len(e.attendees) = 1
                      /\ ~HasUser(e.attendees) )
                        => /\ lastCall.toasts = <<FullToast(e)>>
                           /\ events = lastCall.before

\* C10 witness: the user has left and joined again an event of maxAttendees 1
\* of which the user was the single attendee.
C10_Witness ==
    /\ prevCall.op = "handleRsvp"
    /\ lastCall.op = "handleRsvp"
    /\ prevCall.arg = lastCall.arg
    /\ \E i \in Matching(prevCall.before, prevCall.arg) :
          /\ prevCall.before[i].maxAttendees = Num(1)
          /\ prevCall.before[i].attendees = <<mockUser>>
          /\ events[i].attendees = <<mockUser>>

----------------------------------------------------------------------------
(* Properties of event creation *)

\* the date string parses to a valid instant
Parses(str) == IsValid(ParseISO(str))

\* the recorded call of handleSubmit passed validateForm
Accepted(call) == DOMAIN call.errors = {}

\* C11: in every state reached by event creations, through the form or by
\* handleAddEvent called with any data, the date of every event of the list
\* parses to a valid instant, and a creation attempt whose date string does
\* not parse has added no event.
C11_StoredDatesParse ==
    /\ \A i \in 1..Len(events) : Parses(events[i].date)
    /\ (lastCall.op \in {"handleSubmit", "handleAddEvent"} /\ ~Parses(lastCall.arg.date))
          => events = lastCall.before

\* C11 witness: handleAddEvent was called with a date string that does not
\* parse, after the form was submitted with one, the list holding a created
\* event.
C11_Witness ==
    /\ lastCall.op = "handleAddEvent"
    /\ ~Parses(lastCall.arg.date)
    /\ prevCall.op = "handleSubmit"
    /\ ~Parses(prevCall.arg.date)
    /\ Len(events) > InitialCount

\* C12: in every state reached by event creations, the events of the list
\* have pairwise distinct ids, also when two of them were created at the same
\* clock reading.
C12_DistinctIds ==
    \A i, j \in 1..Len(events) : events[i].id = events[j].id => i = j

\* trimmed is text without the whitespace at its two ends
IsTrimOf(trimmed, text) ==
    \E a, b \in 0..Len(text) :
        /\ a + Len(trimmed) + b = Len(text)
        /\ trimmed = SubSeq(text, a + 1, a + Len(trimmed))
        /\ \A k \in 1..a : text[k] = " "
        /\ \A k \in (Len(text) - b + 1)..Len(text) : text[k] = " "
        /\ trimmed # <<>> => (trimmed[1] # " " /\ trimmed[Len(trimmed)] # " ")

\* C13: a submission that passes validateForm appends exactly one event at
\* the end of the event list and keeps the events before it as they were, in
\* their order; the new event has the creator as its single attendee and as
\* createdBy, the title, description and location of the draft without the
\* whitespace at their ends, and as maxAttendees the parsed value of the draft,
\* or none when the draft gives none.
C13_CreationAppendsEvent ==
    (lastCall.op = "handleSubmit" /\ Accepted(lastCall)) =>
        LET draft == lastCall.arg
            before == lastCall.before
        IN  /\ Len(events) = Len(before) + 1
            /\ SubSeq(events, 1, Len(before)) = before
            /\ LET event == events[Len(events)]
               IN  /\ event.attendees = <<mockUser>>
                   /\ event.createdBy = mockUser
                   /\ IsTrimOf(event.title, draft.title)
                   /\ IsTrimOf(event.description, draft.description)
                   /\ IsTrimOf(event.location, draft.location)
                   /\ event.maxAttendees =
                          IF draft.maxAttendees = <<>> THEN Undefined
                          ELSE ParseInt(draft.maxAttendees)

\* C13 witness: a second event was created, from a draft whose title has
\* whitespace at both ends.
C13_Witness ==
    /\ lastCall.op = "handleSubmit"
    /\ Accepted(lastCall)
    /\ Head(lastCall.arg.title) = " "
    /\ lastCall.arg.title[Len(lastCall.arg.title)] = " "
    /\ Len(lastCall.before) = InitialCount + 1
    /\ Len(events) = InitialCount + 2
    /\ events[Len(events)].title = <<"Sync">>

\* C14: a submission that validateForm rejects, and a call of handleAddEvent
\* with a date string that does not parse, create no event and leave the event
\* list as it was.
C14_FailedCreationKeepsList ==
    /\ (lastCall.op = "handleSubmit" /\ ~Accepted(lastCall))
          => events = lastCall.before
    /\ (lastCall.op = "handleAddEvent" /\ ~Parses(lastCall.arg.date))
          => events = lastCall.before

\* C14 witness: a draft with several failing fields was rejected, after
\* handleAddEvent was called with a date string that does not parse, the list
\* holding a created event.
C14_Witness ==
    /\ lastCall.op = "handleSubmit"
    /\ Cardinality(DOMAIN lastCall.errors) > 1
    /\ prevCall.op = "handleAddEvent"
    /\ ~Parses(prevCall.arg.date)
    /\ Len(events) > InitialCount

\* the text is empty once the whitespace at its ends is removed
Blank(text) == \A k \in 1..Len(text) : text[k] = " "

\* the max-attendee value of the draft parses to an integer that is at least 1
PositiveInteger(text) ==
    ParseInt(text).kind = "number" /\ ParseInt(text).val >= 1

\* the fields of a draft that break their rule, at the clock reading at: the
\* title and the location must not be blank, the date must parse and be no
\* more than 60 seconds in the past, a max-attendee value that is supplied
\* must parse to an integer that is at least 1
BrokenFields(draft, at) ==
    (IF Blank(draft.title) THEN {"title"} ELSE {})
    \cup (IF ~Parses(draft.date) \/ ParseISO(draft.date).time < at - 60
          THEN {"date"} ELSE {})
    \cup (IF Blank(draft.location) THEN {"location"} ELSE {})
    \cup (IF draft.maxAttendees # <<>> /\ ~PositiveInteger(draft.maxAttendees)
          THEN {"maxAttendees"} ELSE {})

\* C15: validateForm tags an error on exactly the fields of the draft that
\* break their rule (a blank title, a missing or unparseable date, a blank
\* location; a field that satisfies its rule has no error), and the draft is
\* accepted, an event being created, exactly when no field breaks its rule.
C15_ErrorsOnExactlyBrokenFields ==
    lastCall.op = "handleSubmit" =>
        /\ DOMAIN lastCall.errors = BrokenFields(lastCall.arg, lastCall.at)
        /\ (events # lastCall.before) <=> (BrokenFields(lastCall.arg, lastCall.at) = {})

\* C16: validateForm gives the date error "cannot be in the past" exactly when
\* the parsed date is more than 60 seconds before the clock reading; a date
\* that parses and is at most 60 seconds in the past, or not in the past, has
\* no date error.
C16_GraceWindow ==
    (lastCall.op = "handleSubmit" /\ Parses(lastCall.arg.date)) =>
        IF ParseISO(lastCall.arg.date).time < lastCall.at - 60
        THEN /\ "date" \in DOMAIN lastCall.errors
             /\ lastCall.errors["date"] = "Date/time cannot be in the past."
             /\ events = lastCall.before
        ELSE "date" \notin DOMAIN lastCall.errors

\* C16 witness: a draft dated exactly 60 seconds before the clock reading got
\* no date error, after a draft dated 61 seconds before it got one, and an
\* event dated 5 seconds in the past was created.
C16_Witness ==
    /\ lastCall.op = "handleSubmit"
    /\ Parses(lastCall.arg.date)
    /\ ParseISO(lastCall.arg.date).time = lastCall.at - 60
    /\ "date" \notin DOMAIN lastCall.errors
    /\ prevCall.op = "handleSubmit"
    /\ Parses(prevCall.arg.date)
    /\ ParseISO(prevCall.arg.date).time = prevCall.at - 61
    /\ "date" \in DOMAIN prevCall.errors
    /\ \E i \in 1..Len(events) :
          i > InitialCount /\ ParseISO(events[i].date).time = lastCall.at - 5

\* C17: a draft that supplies a max-attendee value is accepted only if the
\* value parses to an integer that is at least 1; otherwise it is rejected
\* with a maxAttendees error and no event is created; so every event of the
\* list has no maxAttendees or a positive integer.
C17_MaxAttendeesPositiveInteger ==
    /\ (lastCall.op = "handleSubmit" /\ lastCall.arg.maxAttendees # <<>>) =>
          IF PositiveInteger(lastCall.arg.maxAttendees)
          THEN "maxAttendees" \notin DOMAIN lastCall.errors
          ELSE /\ "maxAttendees" \in DOMAIN lastCall.errors
               /\ events = lastCall.before
    /\ \A i \in 1..Len(events) :
          \/ events[i].maxAttendees = Undefined
          \/ events[i].maxAttendees.kind = "number" /\ events[i].maxAttendees.val >= 1

----------------------------------------------------------------------------
(* Properties of the calendar grid *)

\* the cells of the grid, row after row
Cells == Flat(calendarDays)

\* the date is a day of the displayed month
InMonth(date) ==
    /\ GetFullYear(date.time) = GetFullYear(currentMonth.time)
    /\ GetMonth(date.time) = GetMonth(currentMonth.time)

\* the day of the displayed month the date is, 0 when it is a day of another
\* month
DayInMonth(date) == IF InMonth(date) THEN GetDate(date.time) ELSE 0

\* C20: for the displayed month, calendarDays is a sequence of rows of
\* exactly 7 dates, the first date of every row is a Sunday, every cell is
\* the day after the cell before it, also from one row to the next, the
\* first row holds the 1st of the month and the last row its last day, and
\* every day of the month is in exactly one cell.
C20_GridCoversMonth ==
    LET rows == calendarDays
        cells == Flat(rows)
        days == [k \in 1..Len(cells) |-> LocalDay(cells[k].time)]
        inMonth == [k \in 1..Len(cells) |-> DayInMonth(cells[k])]
        last == DaysInMonth(GetFullYear(currentMonth.time), GetMonth(currentMonth.time))
    IN  /\ rows # <<>>
        /\ \A r \in 1..Len(rows) :
              /\ Len(rows[r]) = 7
              /\ GetDay(rows[r][1].time) = 0
        /\ \A k \in 1..(Len(cells) - 1) : days[k + 1] = days[k] + 1
        /\ \E c \in 1..Len(rows[1]) : DayInMonth(rows[1][c]) = 1
        /\ \E c \in 1..Len(rows[Len(rows)]) : DayInMonth(rows[Len(rows)][c]) = last
        /\ \A d \in 1..last :
              Cardinality({ k \in 1..Len(cells) : inMonth[k] = d }) = 1

\* C20 witness: the month displayed after navigation has a grid of 6 rows
\* that begins in the month before and ends in the month after.
C20_Witness ==
    /\ MonthsBetween(loadedAt, currentMonth.time) # 0
    /\ Len(calendarDays) = 6
    /\ ~InMonth(Cells[1])
    /\ ~InMonth(Cells[Len(Cells)])

----------------------------------------------------------------------------
(* Properties of the event list over time *)

\* the ids of the events of the list, in their order
Ids(list) == [i \in 1..Len(list) |-> list[i].id]

RECURSIVE IsSubsequence(_, _)
\* the elements of a are in b, in the order they have in a
IsSubsequence(a, b) ==
    IF a = <<>> THEN TRUE
    ELSE IF b = <<>> THEN FALSE
    ELSE IF Head(a) = Head(b) THEN IsSubsequence(Tail(a), Tail(b))
    ELSE IsSubsequence(a, Tail(b))

\* C18: no step of the page (event creation, RSVP toggle, month navigation,
\* day selection, timer firing, clock tick) removes an event or changes the
\* relative order of the events: the ids of the list before the step are in
\* the list after it, in the same order; so an id that is in the list at one
\* state is in it at every later state.
C18_NoEventRemoved ==
    [][IsSubsequence(Ids(events), Ids(events'))]_vars

\* C18 witness: an event was created and the user has left the first event,
\* the timer of the notification has fired after the clock advanced, another
\* month is displayed and a day of it is selected.
C18_Witness ==
    /\ Len(events) > InitialCount
    /\ events[1].attendees = <<Alice>>
    /\ notification = Null
    /\ timers = {}
    /\ now > loadedAt
    /\ MonthsBetween(loadedAt, currentMonth.time) # 0
    /\ selectedDate = startOfMonth(currentMonth)

\* the creator of the event is one of its attendees
CreatorAttends(event) ==
    \E k \in 1..Len(event.attendees) : event.attendees[k] = event.createdBy

\* C19: the creator of an event is one of its attendees when the event is
\* created (the events the list starts with, and every event a step adds),
\* and no step changes the createdBy of an event of the list, also when the
\* creator cancels the RSVP and is no longer one of the attendees.
C19_CreatedByKept ==
    /\ \A i \in 1..Len(events) : CreatorAttends(events[i])
    /\ [][
          /\ Len(events') >= Len(events)
          /\ \A i \in 1..Len(events) : events'[i].createdBy = events[i].createdBy
          /\ \A j \in (Len(events) + 1)..Len(events') :
                /\ CreatorAttends(events'[j])
                /\ events'[j].createdBy = mockUser
       ]_vars

\* C19 witness: the user has cancelled the RSVP to an event the user has
\* created with the form and to the initial event the user has created; both
\* have no attendee and the user as createdBy.
C19_Witness ==
    /\ Len(events) > InitialCount
    /\ events[Len(events)].createdBy = mockUser
    /\ events[Len(events)].attendees = <<>>
    /\ events[3].createdBy = mockUser
    /\ events[3].attendees = <<>>

----------------------------------------------------------------------------
(* Properties of the events of a day *)

\* the local day number of the date of the event
EventDay(event) == LocalDay(ParseISO(event.date).time)

\* the positions, in the list, of the events with a valid date on the local
\* day number n
PositionsOnDay(list, n) ==
    { i \in 1..Len(list) : Parses(list[i].date) /\ EventDay(list[i]) = n }

\* the number of places the event has in the groups of the map
Places(map, event) ==
    Cardinality({ <<key, k>> \in UNION { {key} \X (1..Len(map[key])) : key \in DOMAIN map } :
                    map[key][k] = event })

\* C21: eventsByDate is a partition of exactly the events with a valid
\* date: each of them is in exactly one group, the group whose key is its
\* own local calendar day; an event with an invalid date is in no group; the
\* events of a group are in the order they have in the event list; no group
\* is empty.
C21_GroupsPartitionValidEvents ==
    LET map == eventsByDate
    IN  /\ \A i \in 1..Len(events) :
              IF Parses(events[i].date)
              THEN /\ Places(map, events[i]) = 1
                   /\ \E key \in DOMAIN map :
                         /\ DaysFromCivil(key[1], key[2], key[3]) = EventDay(events[i])
                         /\ \E k \in 1..Len(map[key]) : map[key][k] = events[i]
              ELSE Places(map, events[i]) = 0
        /\ \A key \in DOMAIN map :
              /\ map[key] # <<>>
              /\ \A k \in 1..Len(map[key]) :
                    \E i \in 1..Len(events) : events[i] = map[key][k]
              /\ \A k, l \in 1..Len(map[key]) :
                    k < l => \E i, j \in 1..Len(events) :
                                /\ i < j
                                /\ events[i] = map[key][k]
                                /\ events[j] = map[key][l]

\* C21 witness: the list holds an event with an invalid date between two
\* events of one local day, the later of them dated on the day before in UTC.
C21_Witness ==
    /\ Len(events) = 3
    /\ ~Parses(events[2].date)
    /\ Parses(events[1].date)
    /\ Parses(events[3].date)
    /\ EventDay(events[1]) = EventDay(events[3])
    /\ events[3].date.d # events[1].date.d
    /\ Cardinality(DOMAIN eventsByDate) = 1

\* the events of the group eventsByDate holds for the selected day, none when
\* the map has no such group
SelectedGroup ==
    LET dateKey == DateKey(selectedDate)
        map == eventsByDate
    IN  IF dateKey \in DOMAIN map THEN map[dateKey] ELSE <<>>

\* the position of the event in the event list
PositionOf(event) == CHOOSE i \in 1..Len(events) : events[i] = event

\* C22: with no day selected eventsOnSelectedDate is empty; with a day
\* selected it holds exactly the events of the group of eventsByDate for
\* that day, each once (none when there is no such group), in ascending
\* order of their instants, the events of one instant in the order of the
\* event list.
C22_SelectedDayIsSortedGroup ==
    LET shown == eventsOnSelectedDate
    IN  IF selectedDate = Null THEN shown = <<>>
        ELSE LET group == SelectedGroup
             IN  /\ Len(shown) = Len(group)
                 /\ \A k \in 1..Len(group) :
                       Cardinality({ l \in 1..Len(shown) : shown[l] = group[k] }) = 1
                 /\ \A k, l \in 1..Len(shown) :
                       k < l =>
                         \/ EventTime(shown[k]) < EventTime(shown[l])
                         \/ /\ EventTime(shown[k]) = EventTime(shown[l])
                            /\ PositionOf(shown[k]) < PositionOf(shown[l])

\* C22 witness: the selected day has three events, the second of the list
\* the earliest and the other two of one instant, shown second, first, third.
C22_Witness ==
    /\ selectedDate # Null
    /\ Len(events) = 3
    /\ \A i \in 1..3 : Parses(events[i].date)
    /\ EventTime(events[1]) = EventTime(events[3])
    /\ eventsOnSelectedDate = <<events[2], events[1], events[3]>>

----------------------------------------------------------------------------
(* Properties of the notification *)

\* C23: after a call of showToast at instant t, and until the user closes
\* the notification or showToast is called again, the notification the call
\* set is shown at every instant before t + 3 s and none is shown at any
\* instant after t + 3 s: the timer of an earlier call does not clear it.
C23_ToastLastsThreeSeconds ==
    lastCall.op = "showToast" =>
        /\ now < lastCall.at + ToastDelay => notification = lastCall.set
        /\ now > lastCall.at + ToastDelay => notification = Null

\* C23, the part the timers keep: no notification outlives the 3 s after
\* the call of showToast that set it.
C23_ToastGoneAfterThreeSeconds ==
    lastCall.op = "showToast" =>
        (now > lastCall.at + ToastDelay => notification = Null)

\* C23: two calls of showToast less than 3 s apart, and the notification of
\* the second is gone less than 3 s after its call, though nobody closed it.
C23_ClearedEarly ==
    /\ lastCall.op = "showToast"
    /\ prevCall.op = "showToast"
    /\ lastCall.at < prevCall.at + ToastDelay
    /\ now < lastCall.at + ToastDelay
    /\ notification = Null

----------------------------------------------------------------------------
(* Properties of the month navigation *)

\* the months from year 0 to the month of the date
MonthIndex(date) == GetFullYear(date.time) * 12 + GetMonth(date.time)

\* C24: handlePrevMonth displays the month one calendar month before the
\* one displayed (December of the year before, from January),
\* handleNextMonth the month one after (January of the next year, from
\* December); both set selectedDate to null and keep the event list; after
\* handleNextMonth then handlePrevMonth, or the reverse, the month displayed
\* before the two calls is displayed again.
C24_MonthStepsAndRoundTrip ==
    /\ lastCall.op = "handlePrevMonth" =>
          /\ MonthIndex(currentMonth) = MonthIndex(lastCall.arg) - 1
          /\ GetMonth(lastCall.arg.time) = 1 =>
                /\ GetMonth(currentMonth.time) = 12
                /\ GetFullYear(currentMonth.time) = GetFullYear(lastCall.arg.time) - 1
          /\ selectedDate = Null
          /\ events = lastCall.before
    /\ lastCall.op = "handleNextMonth" =>
          /\ MonthIndex(currentMonth) = MonthIndex(lastCall.arg) + 1
          /\ GetMonth(lastCall.arg.time) = 12 =>
                /\ GetMonth(currentMonth.time) = 1
                /\ GetFullYear(currentMonth.time) = GetFullYear(lastCall.arg.time) + 1
          /\ selectedDate = Null
          /\ events = lastCall.before
    /\ \/ lastCall.op = "handlePrevMonth" /\ prevCall.op = "handleNextMonth"
       \/ lastCall.op = "handleNextMonth" /\ prevCall.op = "handlePrevMonth"
       => isSameMonth(currentMonth, prevCall.arg)

\* C24 witness: currentMonth was the 31st of January; handleNextMonth and
\* then handlePrevMonth ran, over a February of 28 days, and January is
\* displayed with no day selected.
C24_Witness ==
    /\ prevCall.op = "handleNextMonth"
    /\ lastCall.op = "handlePrevMonth"
    /\ GetMonth(prevCall.arg.time) = 1
    /\ GetDate(prevCall.arg.time) = 31
    /\ GetDate(lastCall.arg.time) = 28
    /\ GetMonth(currentMonth.time) = 1
    /\ selectedDate = Null

\* C24 witness of the year rollover: handlePrevMonth ran on a January.
C24_RolloverWitness ==
    /\ lastCall.op = "handlePrevMonth"
    /\ GetMonth(lastCall.arg.time) = 1
    /\ GetMonth(currentMonth.time) = 12

----------------------------------------------------------------------------
(* Properties of the event card *)

\* C25: on the card of every event, the RSVP control is disabled exactly
\* when the current user is not attending and the event is full (maxAttendees
\* set and as many attendees or more); it is enabled when the user attends
\* and when the event has room.
C25_DisabledWhenFullAndNotAttending ==
    LET disabled == RsvpDisabled(events)
    IN  \A i \in 1..Len(events) :
          /\ disabled[i] <=> (~HasUser(events[i].attendees) /\ AtCapacity(events[i]))
          /\ HasUser(events[i].attendees) => ~disabled[i]
          /\ ~AtCapacity(events[i]) => ~disabled[i]

\* C25 witness: the user took the last place of an event by handleRsvp, and
\* the control of the full event is enabled.
C25_Witness ==
    /\ lastCall.op = "handleRsvp"
    /\ \E i \in 1..Len(events) :
          /\ events[i].id = lastCall.arg
          /\ ~HasUser(lastCall.before[i].attendees)
          /\ HasUser(events[i].attendees)
          /\ AtCapacity(events[i])
          /\ ~RsvpDisabled(events)[i]

\* C25 witness of the disabled control: a full event the user does not
\* attend, after a handleRsvp that added nobody.
C25_DisabledWitness ==
    /\ lastCall.op = "handleRsvp"
    /\ \E i \in 1..Len(events) :
          /\ events[i].id = lastCall.arg
          /\ ~HasUser(events[i].attendees)
          /\ AtCapacity(events[i])
          /\ RsvpDisabled(events)[i]

----------------------------------------------------------------------------
(* Properties of the selected day *)

\* C26: in every state reached by day clicks, month navigation, the Today
\* button and event creations, selectedDate is null or a day of the month
\* displayed, the month of currentMonth.
C26_SelectedDayInDisplayedMonth ==
    selectedDate # Null => isSameMonth(selectedDate, currentMonth)

\* C26, for the calendar alone: the invariant of the day clicks, the month
\* navigation and the Today button, with no event created.
C26_SelectedDayInDisplayedMonthByCalendar ==
    selectedDate # Null =>
        /\ GetFullYear(selectedDate.time) = GetFullYear(currentMonth.time)
        /\ GetMonth(selectedDate.time) = GetMonth(currentMonth.time)

\* C26: an event was created and its day, selected by handleAddEvent, is
\* not a day of the month displayed.
C26_CreatedDaySelectedOutsideMonth ==
    /\ Len(events) > InitialCount
    /\ selectedDate = ParseISO(events[Len(events)].date)
    /\ ~isSameMonth(selectedDate, currentMonth)

====
